---- MODULE Spec2Model ----
(***************************************************************************)
(* A model of heyAI_Yan_bot.py: the YandexGPTClient (get_response and its  *)
(* helpers) and the TelegramBot message handler.                           *)
(*                                                                         *)
(* Python values are modelled as follows.                                  *)
(*   - A JSON value is a record [t, s, items, txt]: t is the Python type   *)
(*     the parser produces ("null", "bool", "num", "str", "list", "obj"),  *)
(*     s the content of a scalar, items the ordered members of a container *)
(*     (each [k, val]; k is "" in a list), txt the characters of a str     *)
(*     that is given character by character.                               *)
(*   - A str that the client cleans and parses is a sequence of            *)
(*     characters [c, doc]: a backtick, a newline, a space, a letter, or   *)
(*     one whole JSON document written on one line (c = "json") or as      *)
(*     json.dumps(..., indent=2) writes it (c = "json2").                  *)
(*   - The result of an expression that may raise is [exc, val]: exc is    *)
(*     the class of the exception raised, or "none".                       *)
(***************************************************************************)
EXTENDS Integers, Sequences, FiniteSets, TLC

\* ------------------------------------------------------------ JSON values

JNull == [t |-> "null", s |-> "", items |-> <<>>, txt |-> <<>>]
JBool(b) == [t |-> "bool", s |-> b, items |-> <<>>, txt |-> <<>>]
JNum(n) == [t |-> "num", s |-> n, items |-> <<>>, txt |-> <<>>]
JStr(x) == [t |-> "str", s |-> x, items |-> <<>>, txt |-> <<>>]
\* a str given character by character (the text the upstream model wrote)
JText(text) == [t |-> "str", s |-> "~text", items |-> <<>>, txt |-> text]
JList(vals) == [t |-> "list", s |-> "", txt |-> <<>>,
                items |-> [i \in 1..Len(vals) |-> [k |-> "", val |-> vals[i]]]]
JObj(pairs) == [t |-> "obj", s |-> "", txt |-> <<>>,
                items |-> [i \in 1..Len(pairs) |-> [k |-> pairs[i][1], val |-> pairs[i][2]]]]

HasKey(o, key) == \E i \in 1..Len(o.items) : o.items[i].k = key
Get(o, key) == o.items[CHOOSE i \in 1..Len(o.items) : o.items[i].k = key].val
\* d[key] = v on a dict: the key keeps its place, a new key goes last.
Put(o, key, v) ==
    IF HasKey(o, key)
    THEN [o EXCEPT !.items = [i \in 1..Len(o.items) |->
             IF o.items[i].k = key THEN [k |-> key, val |-> v] ELSE o.items[i]]]
    ELSE [o EXCEPT !.items = Append(o.items, [k |-> key, val |-> v])]

\* ------------------------------------------------ expressions that raise

Ok(v) == [exc |-> "none", val |-> v]
Raise(cls) == [exc |-> cls, val |-> JNull]

\* The strings of the model that contain sub (Python's  sub in s  on a str).
Superstrings(sub) ==
    CASE sub = "data" -> {"data", "metadata"}
      [] sub = "metadata" -> {"metadata"}
      [] OTHER -> {sub}
FirstChar(x) == CASE x = "abc" -> "a" [] x = "data" -> "d" [] x = "metadata" -> "m" [] OTHER -> x

\* bool(x)
PyTruthy(x) ==
    CASE x.t = "null" -> FALSE
      [] x.t = "bool" -> x.s = "true"
      [] x.t = "num" -> x.s # "0"
      [] x.t = "str" -> x.s # "" /\ (x.s = "~text" => x.txt # <<>>)
      [] OTHER -> Len(x.items) > 0
\* key in x, for a str key
PyIn(key, x) ==
    CASE x.t = "obj" -> Ok(HasKey(x, key))
      [] x.t = "list" -> Ok(\E i \in 1..Len(x.items) : x.items[i].val = JStr(key))
      [] x.t = "str" -> Ok(x.s \in Superstrings(key))
      [] OTHER -> Raise("TypeError")
\* x[key], for a str key
PyGetItem(x, key) ==
    CASE x.t = "obj" -> IF HasKey(x, key) THEN Ok(Get(x, key)) ELSE Raise("KeyError")
      [] OTHER -> Raise("TypeError")
\* x[0]; the keys of a parsed JSON object are strings, so 0 is never one
PyGetIndex0(x) ==
    CASE x.t = "list" -> IF Len(x.items) > 0 THEN Ok(x.items[1].val) ELSE Raise("IndexError")
      [] x.t = "str" -> IF ~PyTruthy(x) THEN Raise("IndexError")
                        ELSE IF x.s = "~text" THEN Ok(JText(<<x.txt[1]>>))
                        ELSE Ok(JStr(FirstChar(x.s)))
      [] x.t = "obj" -> Raise("KeyError")
      [] OTHER -> Raise("TypeError")
\* x[key] = v, for a str key
PySetItem(x, key, v) ==
    CASE x.t = "obj" -> Ok(Put(x, key, v))
      [] OTHER -> Raise("TypeError")

\* ------------------------------------------------------------------ text

Ch(x) == [c |-> x, doc |-> JNull]
BT == Ch("bt")
NL == Ch("\n")
SP == Ch(" ")
LX == Ch("x")
Compact(v) == <<[c |-> "json", doc |-> v]>>
IsSpace(ch) == ch.c \in {" ", "\n"}

RECURSIVE LStrip(_)
LStrip(t) == IF t # <<>> /\ IsSpace(Head(t)) THEN LStrip(Tail(t)) ELSE t
RECURSIVE RStrip(_)
RStrip(t) == IF t # <<>> /\ IsSpace(t[Len(t)]) THEN RStrip(SubSeq(t, 1, Len(t) - 1)) ELSE t
\* str.strip()
Strip(t) == RStrip(LStrip(t))
\* text.startswith(three backticks)
StartsWithFence(t) == Len(t) >= 3 /\ t[1] = BT /\ t[2] = BT /\ t[3] = BT
\* text.split(newline)
RECURSIVE Split(_)
Split(t) ==
    IF \A i \in 1..Len(t) : t[i] # NL THEN <<t>>
    ELSE LET i == CHOOSE j \in 1..Len(t) : t[j] = NL /\ \A m \in 1..(j - 1) : t[m] # NL
         IN <<SubSeq(t, 1, i - 1)>> \o Split(SubSeq(t, i + 1, Len(t)))
\* newline.join(lines)
RECURSIVE Join(_)
Join(lines) ==
    IF lines = <<>> THEN <<>>
    ELSE IF Len(lines) = 1 THEN lines[1]
    ELSE lines[1] \o <<NL>> \o Join(Tail(lines))

\* _clean_markdown_json
_clean_markdown_json(text0) ==
    LET text == Strip(text0)
    IN IF StartsWithFence(text)
       THEN LET lines == Split(text)
                lines1 == IF Len(lines) > 1 THEN Tail(lines) ELSE lines
                lines2 == IF lines1 # <<>> /\ Strip(lines1[Len(lines1)]) = <<BT, BT, BT>>
                          THEN SubSeq(lines1, 1, Len(lines1) - 1) ELSE lines1
            IN Strip(Join(lines2))
       ELSE Strip(text)

\* a function that returns a str raises
RaiseT(cls) == [exc |-> cls, val |-> <<>>]
\* the characters of a str value; a str given by name is prose, one letter here
TextOf(v) == IF v.s = "~text" THEN v.txt ELSE IF v.s = "" THEN <<>> ELSE <<LX>>

\* json.loads(text): one document, white space around it allowed
Loads(text) ==
    LET body == Strip(text)
    IN IF Len(body) = 1 /\ body[1].c \in {"json", "json2"}
       THEN Ok(body[1].doc) ELSE Raise("JSONDecodeError")
\* json.dumps(value, ensure_ascii=False, indent=2)
Dumps(v) == <<[c |-> "json2", doc |-> v]>>

\* --------------------------------------------------------- exceptions

\* the classes an exception of class cls is an instance of
Ancestors(cls) ==
    CASE cls = "ConnectTimeout" ->
            {"ConnectTimeout", "ConnectionError", "Timeout", "RequestException", "OSError", "Exception"}
      [] cls = "ReadTimeout" -> {"ReadTimeout", "Timeout", "RequestException", "OSError", "Exception"}
      [] cls = "ConnectionError" -> {"ConnectionError", "RequestException", "OSError", "Exception"}
      [] cls = "HTTPError" -> {"HTTPError", "RequestException", "OSError", "Exception"}
      [] cls = "TooManyRedirects" -> {"TooManyRedirects", "RequestException", "OSError", "Exception"}
      \* requests.exceptions.JSONDecodeError(InvalidJSONError, json.JSONDecodeError)
      [] cls = "RequestsJSONDecodeError" ->
            {"RequestsJSONDecodeError", "InvalidJSONError", "RequestException", "OSError",
             "JSONDecodeError", "ValueError", "Exception"}
      [] cls = "JSONDecodeError" -> {"JSONDecodeError", "ValueError", "Exception"}
      [] cls = "SimplejsonJSONDecodeError" -> {"SimplejsonJSONDecodeError", "ValueError", "Exception"}
      [] cls = "UnicodeEncodeError" -> {"UnicodeEncodeError", "UnicodeError", "ValueError", "Exception"}
      [] cls = "KeyError" -> {"KeyError", "LookupError", "Exception"}
      [] cls = "IndexError" -> {"IndexError", "LookupError", "Exception"}
      [] OTHER -> {cls, "Exception"}
IsInstance(cls, base) == base \in Ancestors(cls)
\* type(e).__name__
TypeName(cls) ==
    IF cls \in {"RequestsJSONDecodeError", "SimplejsonJSONDecodeError"} THEN "JSONDecodeError" ELSE cls

\* --------------------------------------------------- YandexGPTClient

\* _get_current_timestamp, at time n of the clock
_get_current_timestamp(n) == "ts" \o ToString(n)

\* _create_system_prompt: the instructions carry the timestamp
_create_system_prompt(timestamp) == "system prompt with timestamp " \o timestamp

\* _create_payload
_create_payload(system_prompt, user_text) ==
    [modelUri |-> "gpt://folder/yandexgpt",
     completionOptions |-> [stream |-> FALSE, temperature |-> "0.6", maxTokens |-> "2000"],
     messages |-> <<[role |-> "system", text |-> system_prompt],
                    [role |-> "user", text |-> user_text]>>]

\* _create_error_response that leaves the data slot out
CreateErrorResponseWithoutData(code, message, timestamp, details) ==
    Dumps(JObj(<<
        <<"status", JStr("error")>>,
        <<"error", JObj(<<
            <<"code", JStr(code)>>,
            <<"message", JStr(message)>>,
            <<"details", JObj(<< <<"timestamp", JStr(timestamp)>> >> \o details)>> >>)>> >>))

\* _create_error_response; details is the keyword arguments, in order
_create_error_response(code, message, timestamp, details) ==
    Dumps(JObj(<<
        <<"status", JStr("error")>>,
        <<"data", JNull>>,
        <<"error", JObj(<<
            <<"code", JStr(code)>>,
            <<"message", JStr(message)>>,
            <<"details", JObj(<< <<"timestamp", JStr(timestamp)>> >> \o details)>> >>)>> >>))

\* _fix_timestamp_in_response: [exc, val]
_fix_timestamp_in_response(response, correct_timestamp) ==
    LET parsed == Loads(response)
        parsed_json == parsed.val
        hasData == PyIn("data", parsed_json)
        data == PyGetItem(parsed_json, "data")
        hasMeta == PyIn("metadata", data.val)
        meta == PyGetItem(data.val, "metadata")
        stamped == PySetItem(meta.val, "timestamp", JStr(correct_timestamp))
    IN IF parsed.exc # "none" THEN Ok(response)      \* except json.JSONDecodeError
       ELSE IF hasData.exc # "none" THEN RaiseT(hasData.exc)
       ELSE IF ~hasData.val THEN Ok(response)
       ELSE IF data.exc # "none" THEN RaiseT(data.exc)
       ELSE IF hasMeta.exc # "none" THEN RaiseT(hasMeta.exc)
       ELSE IF ~hasMeta.val THEN Ok(response)
       ELSE IF meta.exc # "none" THEN RaiseT(meta.exc)
       ELSE IF stamped.exc # "none" THEN RaiseT(stamped.exc)
       ELSE Ok(Dumps(Put(parsed_json, "data", Put(data.val, "metadata", stamped.val))))

\* list(data.keys()) if isinstance(data, dict) else "invalid_response"
ResponseKeys(data) ==
    IF data.t = "obj" THEN JList([i \in 1..Len(data.items) |-> JStr(data.items[i].k)])
    ELSE JStr("invalid_response")

\* the try block of _extract_response_content: [exc, val]
ExtractTry(data, timestamp) ==
    LET result == PyGetItem(data, "result")
        alternatives == PyGetItem(result.val, "alternatives")
        first == PyGetIndex0(alternatives.val)
        message == PyGetItem(first.val, "message")
        raw_response == PyGetItem(message.val, "text")
    IN IF result.exc # "none" THEN RaiseT(result.exc)
       ELSE IF alternatives.exc # "none" THEN RaiseT(alternatives.exc)
       ELSE IF ~PyTruthy(alternatives.val) THEN RaiseT("KeyError")
       ELSE IF first.exc # "none" THEN RaiseT(first.exc)
       ELSE IF message.exc # "none" THEN RaiseT(message.exc)
       ELSE IF raw_response.exc # "none" THEN RaiseT(raw_response.exc)
       ELSE IF raw_response.val.t # "str" THEN RaiseT("AttributeError")   \* no .strip()
       ELSE _fix_timestamp_in_response(
                _clean_markdown_json(TextOf(raw_response.val)), timestamp)

\* the classes of  except (KeyError, IndexError)
ExtractCaught == {"KeyError", "IndexError"}

\* _extract_response_content: [exc, val]
_extract_response_content(data, timestamp) ==
    LET tried == ExtractTry(data, timestamp)
    IN IF tried.exc # "none" /\ \E base \in ExtractCaught : IsInstance(tried.exc, base)
       THEN Ok(_create_error_response("api_structure_error",
                   "unexpected structure of the answer of Yandex API", timestamp,
                   << <<"response_keys", ResponseKeys(data)>> >>))
       ELSE tried

\* ---------------------------------------------- the upstream HTTP call

\* Response.raise_for_status raises HTTPError for 4xx and 5xx
RaisesForStatus(status) == 400 <= status /\ status < 600
\* bool(response) is Response.ok: raise_for_status did not raise
ResponseTruthy(status) == ~RaisesForStatus(status)
\* the class Response.json raises on a body that is not JSON: requests since 2.27
\* its own JSONDecodeError, before that the one of json, or of simplejson when
\* that is installed
JsonErrorClass(build) ==
    CASE build = "requests>=2.27" -> "RequestsJSONDecodeError"
      [] build = "requests<2.27" -> "JSONDecodeError"
      [] OTHER -> "SimplejsonJSONDecodeError"
\* response.json(): [exc, val]
ResponseJson(body, build) ==
    LET parsed == Loads(body)
    IN IF parsed.exc # "none" THEN Raise(JsonErrorClass(build)) ELSE parsed

\* get_response without its last clause, except Exception
HandlersWithoutCatchAll ==
    <<"Timeout", "HTTPError", "ConnectionError", "RequestException", "JSONDecodeError">>
\* get_response with except ConnectionError tried before except Timeout
HandlersConnectionFirst ==
    <<"ConnectionError", "Timeout", "HTTPError", "RequestException", "JSONDecodeError", "Exception">>

\* the except clauses of get_response, in the order they are tried
Handlers ==
    <<"Timeout", "HTTPError", "ConnectionError", "RequestException", "JSONDecodeError", "Exception">>
\* the clause that catches an exception of class cls ("none": it propagates)
HandlerFor(cls) ==
    LET matching == {i \in 1..Len(Handlers) : IsInstance(cls, Handlers[i])}
    IN IF matching = {} THEN "none"
       ELSE Handlers[CHOOSE i \in matching : \A j \in matching : i <= j]

\* e.response.status_code if e.response else "unknown"
StatusCodeOf(status) ==
    IF ResponseTruthy(status) THEN JNum(ToString(status)) ELSE JStr("unknown")
\* 60 if status_code in [429, 503] else 30
RetryAfterOf(status_code) ==
    IF status_code \in {JNum("429"), JNum("503")} THEN JNum("60") ELSE JNum("30")

\* the body of the except clause h, for exception class cls
ExceptClause(h, cls, status, timestamp) ==
    CASE h = "Timeout" ->
            _create_error_response("timeout_error", "the API did not answer in time",
                timestamp, << <<"retry_after", JNum("30")>> >>)
      [] h = "HTTPError" ->
            _create_error_response("http_error", "HTTP error: " \o StatusCodeOf(status).s,
                timestamp, << <<"status_code", StatusCodeOf(status)>>,
                              <<"retry_after", RetryAfterOf(StatusCodeOf(status))>> >>)
      [] h = "ConnectionError" ->
            _create_error_response("connection_error", "could not connect to the API",
                timestamp, << <<"retry_after", JNum("60")>> >>)
      [] h = "RequestException" ->
            _create_error_response("request_error", "the request to the API failed",
                timestamp, << <<"error_type", JStr(TypeName(cls))>>,
                              <<"retry_after", JNum("30")>> >>)
      [] h = "JSONDecodeError" ->
            _create_error_response("json_decode_error", "could not decode the JSON answer of the API",
                timestamp, << <<"retry_after", JNum("30")>> >>)
      [] OTHER ->
            _create_error_response("unknown_error", "an unexpected error occurred",
                timestamp, << <<"error_type", JStr(TypeName(cls))>>,
                              <<"error_message", JStr("str of " \o cls)>>,
                              <<"retry_after", JNum("60")>> >>)

\* the try block of get_response on the outcome of requests.post: [exc, val]
GetResponseTry(outcome, timestamp, build) ==
    IF outcome.kind = "exception" THEN RaiseT(outcome.cls)
    ELSE IF RaisesForStatus(outcome.status) THEN RaiseT("HTTPError")
    ELSE LET data == ResponseJson(outcome.body, build)
         IN IF data.exc # "none" THEN RaiseT(data.exc)
            ELSE _extract_response_content(data.val, timestamp)

\* get_response from the request on: [exc, val, handler]; exc is the exception
\* that leaves the call ("none": it returns val), handler the except clause run
get_response(outcome, timestamp, build) ==
    LET tried == GetResponseTry(outcome, timestamp, build)
        h == HandlerFor(tried.exc)
    IN IF tried.exc = "none" THEN [exc |-> "none", val |-> tried.val, handler |-> "none"]
       ELSE IF h = "none" THEN [exc |-> tried.exc, val |-> <<>>, handler |-> "none"]
       ELSE [exc |-> "none", handler |-> h,
             val |-> ExceptClause(h, tried.exc, outcome.status, timestamp)]

\* ------------------------------------------------------------ the inputs

\* the clock stops at MaxClock
MaxClock == 2
\* a text to clean is made of at most MaxChunks chunks
MaxChunks == 5
\* the message handlers that run at the same time
NumHandlers == 2

Builds == {"requests>=2.27", "requests<2.27", "requests<2.27 with simplejson"}
Prompts == {"hello", ""}

FENCE == <<BT, BT, BT>>

\* what the upstream model may write as its answer: JSON documents ...
Metadata(ts) == JObj(<< <<"model", JStr("yandexgpt")>>, <<"timestamp", JStr(ts)>>,
                        <<"tokens_used", JNum("7")>> >>)
SuccessDoc(meta) == JObj(<< <<"status", JStr("success")>>,
                            <<"data", JObj(<< <<"text", JStr("abc")>>, <<"metadata", meta>> >>)>>,
                            <<"error", JNull>> >>)
InnerDocs(timestamp) == {
    SuccessDoc(Metadata(timestamp)),
    SuccessDoc(Metadata("another time")),
    SuccessDoc(JObj(<< <<"model", JStr("yandexgpt")>> >>)),
    SuccessDoc(JNull),
    SuccessDoc(JList(<<>>)),
    SuccessDoc(JStr("abc")),
    JObj(<< <<"status", JStr("success")>>, <<"data", JObj(<< <<"text", JStr("abc")>> >>)>>,
            <<"error", JNull>> >>),
    JObj(<< <<"status", JStr("success")>>, <<"data", JStr("metadata")>> >>),
    JObj(<< <<"status", JStr("success")>>, <<"data", JList(<<JStr("metadata")>>)>> >>),
    JObj(<< <<"status", JStr("success")>>, <<"data", JStr("abc")>> >>),
    JObj(<< <<"status", JStr("success")>> >>),
    JObj(<< <<"status", JStr("error")>>, <<"data", JNull>>,
            <<"error", JObj(<< <<"code", JStr("abc")>>, <<"message", JStr("abc")>>,
                               <<"details", JObj(<< <<"retry_after", JNum("60")>> >>)>> >>)>> >>),
    JObj(<<>>),
    JList(<<>>),
    JList(<<JStr("data")>>),
    JNum("5"),
    JStr("abc"),
    JStr("data"),
    JBool("true"),
    JNull }
\* ... or no JSON at all
InnerBodies(timestamp) ==
    {Compact(d) : d \in InnerDocs(timestamp)}
    \cup {<<>>, <<LX>>, Compact(SuccessDoc(Metadata(timestamp))) \o <<SP, LX>>}
\* ... with or without a code fence around it
Wrappings(body) == {
    body,
    FENCE \o <<LX, NL>> \o body \o <<NL>> \o FENCE,
    FENCE \o <<NL>> \o body \o <<NL>> \o FENCE \o <<NL>>,
    <<SP>> \o FENCE \o <<NL>> \o body,
    FENCE \o body \o FENCE,
    FENCE \o <<NL>> \o FENCE \o <<NL>> \o body \o <<NL>> \o FENCE,
    <<NL, SP>> \o body \o <<SP>> }
InnerTexts(timestamp) == UNION {Wrappings(b) : b \in InnerBodies(timestamp)}

\* the JSON bodies of the upstream's answer: the documented shape ...
Message(text) == JObj(<< <<"role", JStr("assistant")>>, <<"text", text>> >>)
Alternatives(alts) == JObj(<< <<"result", JObj(<< <<"alternatives", alts>>,
                                                  <<"modelVersion", JStr("abc")>> >>)>> >>)
Answer(text) == Alternatives(JList(<<JObj(<< <<"message", Message(text)>>,
                                             <<"status", JStr("abc")>> >>)>>))
\* ... and every departure from it
OddDocs == {
    JObj(<<>>), JObj(<< <<"error", JStr("abc")>> >>),
    JObj(<< <<"result", JObj(<<>>)>> >>), JObj(<< <<"result", JNull>> >>),
    JObj(<< <<"result", JList(<<>>)>> >>), JObj(<< <<"result", JStr("abc")>> >>),
    Alternatives(JList(<<>>)), Alternatives(JNull), Alternatives(JObj(<<>>)),
    Alternatives(JStr("")), Alternatives(JNum("0")), Alternatives(JBool("false")),
    Alternatives(JObj(<< <<"message", Message(JStr("abc"))>> >>)),
    Alternatives(JStr("abc")), Alternatives(JNum("5")), Alternatives(JBool("true")),
    Alternatives(JList(<<JObj(<<>>)>>)), Alternatives(JList(<<JNull>>)),
    Alternatives(JList(<<JStr("abc")>>)), Alternatives(JList(<<JList(<<>>)>>)),
    Alternatives(JList(<<JObj(<< <<"message", JObj(<<>>)>> >>)>>)),
    Alternatives(JList(<<JObj(<< <<"message", JNull>> >>)>>)),
    Alternatives(JList(<<JObj(<< <<"message", JStr("abc")>> >>)>>)),
    Alternatives(JList(<<JObj(<< <<"message", JList(<<>>)>> >>)>>)),
    Answer(JNull), Answer(JNum("5")), Answer(JBool("true")), Answer(JList(<<>>)),
    Answer(JObj(<<>>)),
    JList(<<>>), JList(<<JStr("result")>>), JStr("abc"), JStr("result"), JNum("5"),
    JBool("true"), JNull }
OkBodies(timestamp) ==
    {Compact(Answer(JText(t))) : t \in InnerTexts(timestamp)}
    \cup {Compact(Answer(JStr("abc"))), Compact(Answer(JStr("")))}
    \cup {Compact(d) : d \in OddDocs}
    \cup {<<>>, <<LX>>, Compact(JObj(<<>>)) \o <<LX>>, <<SP>> \o Compact(JObj(<<>>)) \o <<NL>>}
ErrorBodies == {<<>>, Compact(JObj(<< <<"error", JStr("abc")>> >>))}

PostExceptions == {"ConnectTimeout", "ReadTimeout", "ConnectionError", "TooManyRedirects",
                   "UnicodeEncodeError"}
OkStatuses == {200, 201}
ErrorStatuses == {400, 404, 429, 500, 503}

NoOutcome == [kind |-> "none", cls |-> "", status |-> 0, body |-> <<>>]
Raised(cls) == [kind |-> "exception", cls |-> cls, status |-> 0, body |-> <<>>]
Answered(status, body) == [kind |-> "response", cls |-> "", status |-> status, body |-> body]
\* what requests.post may do
Outcomes(timestamp) ==
    {Raised(cls) : cls \in PostExceptions}
    \cup {Answered(st, b) : st \in OkStatuses, b \in OkBodies(timestamp)}
    \cup {Answered(st, b) : st \in ErrorStatuses, b \in ErrorBodies}

Chunks == {FENCE, <<NL>>, <<SP>>, <<LX>>, Compact(JObj(<<>>))}
RECURSIVE TextsOf(_)
TextsOf(n) ==
    IF n = 0 THEN {<<>>}
    ELSE TextsOf(n - 1) \cup {c \o t : c \in Chunks, t \in TextsOf(n - 1)}

\* ------------------------------------------------------------- the state

VARIABLES
    now,               \* the clock datetime.now() reads
    build,             \* the requests library installed
    cpc,               \* get_response: "idle", "posting", "returned", "raised"
    request,           \* the payload posted
    timestamp,         \* the timestamp of the call
    outcome,           \* what requests.post did
    ret,               \* the str get_response returned
    raised,            \* the exception that left get_response, or "none"
    handler,           \* the except clause of get_response that ran, or "none"
    cleanPc,           \* how often the text was cleaned
    cleanInput,        \* a text, and _clean_markdown_json applied once and twice
    cleanOnce,
    cleanTwice,
    pc,                \* _message_handler of each update: where it is
    update,            \* the update each handler was called with
    thinking_message,  \* the message reply_text returned to it
    ai_response,       \* the str get_response returned to it
    nextId,            \* the next message id of each chat
    calls              \* the calls made to the chat platform, in order

clientVars == <<now, build, cpc, request, timestamp, outcome, ret, raised, handler>>
cleanVars == <<cleanPc, cleanInput, cleanOnce, cleanTwice>>
relayVars == <<pc, update, thinking_message, ai_response, nextId, calls>>
vars == <<clientVars, cleanVars, relayVars>>

HandlerIds == 1..NumHandlers
Chats == {1, 2}
NoMessage == [chat |-> 0, message_id |-> 0, text |-> ""]
NoThinking == [chat |-> 0, message_id |-> 0]
\* the text of the placeholder ("Dumayu...", in Russian in the source)
THINKING == <<Ch("Dumayu...")>>

ClientIdle ==
    /\ now = 0
    /\ cpc = "idle"
    /\ request = _create_payload("", "")
    /\ timestamp = ""
    /\ outcome = NoOutcome
    /\ ret = <<>>
    /\ raised = "none"
    /\ handler = "none"
CleanIdle ==
    /\ cleanPc = 0
    /\ cleanInput = <<>>
    /\ cleanOnce = <<>>
    /\ cleanTwice = <<>>
RelayIdle ==
    /\ pc = [h \in HandlerIds |-> "idle"]
    /\ update = [h \in HandlerIds |-> NoMessage]
    /\ thinking_message = [h \in HandlerIds |-> NoThinking]
    /\ ai_response = [h \in HandlerIds |-> <<>>]
    /\ nextId = [c \in Chats |-> 1]
    /\ calls = <<>>

\* ------------------------------------------ get_response, call by call

\* lines 165-173: the timestamp is read once, the payload is built
StartCall(user_text) ==
    /\ cpc \in {"idle", "returned"}
    /\ cpc' = "posting"
    /\ timestamp' = _get_current_timestamp(now)
    /\ request' = _create_payload(_create_system_prompt(_get_current_timestamp(now)), user_text)
    /\ outcome' = NoOutcome
    /\ ret' = <<>>
    /\ raised' = "none"
    /\ handler' = "none"
    /\ UNCHANGED <<now, build, cleanVars, relayVars>>

\* lines 175-245: requests.post returns or raises, and the call ends
PostReturns ==
    /\ cpc = "posting"
    /\ \E o \in Outcomes(timestamp) :
          LET r == get_response(o, timestamp, build)
          IN /\ cpc' = IF r.exc = "none" THEN "returned" ELSE "raised"
             /\ ret' = r.val
             /\ raised' = r.exc
             /\ handler' = r.handler
             /\ outcome' = o
    /\ UNCHANGED <<now, build, request, timestamp, cleanVars, relayVars>>

\* time passes
Tick ==
    /\ now < MaxClock
    /\ now' = now + 1
    /\ UNCHANGED <<build, cpc, request, timestamp, outcome, ret, raised, handler,
                   cleanVars, relayVars>>

InitClient == build \in Builds /\ ClientIdle /\ CleanIdle /\ RelayIdle
NextClient ==
    \/ \E user_text \in Prompts : StartCall(user_text)
    \/ PostReturns
    \/ Tick
SpecClient == InitClient /\ [][NextClient]_vars

\* ------------------------------------- _clean_markdown_json, text by text

CleanFirst ==
    /\ cleanPc = 0
    /\ cleanPc' = 1
    /\ cleanOnce' = _clean_markdown_json(cleanInput)
    /\ UNCHANGED <<cleanInput, cleanTwice, clientVars, relayVars>>
CleanAgain ==
    /\ cleanPc = 1
    /\ cleanPc' = 2
    /\ cleanTwice' = _clean_markdown_json(cleanOnce)
    /\ UNCHANGED <<cleanInput, cleanOnce, clientVars, relayVars>>

InitClean ==
    /\ build = "requests>=2.27" /\ ClientIdle /\ RelayIdle
    /\ cleanPc = 0
    /\ cleanInput \in TextsOf(MaxChunks)
    /\ cleanOnce = <<>>
    /\ cleanTwice = <<>>
NextClean == CleanFirst \/ CleanAgain
SpecClean == InitClean /\ [][NextClean]_vars

\* ------------------------------------- TelegramBot._message_handler

\* what requests.post does while a handler waits for get_response
RelayOutcomes(ts) ==
    {Raised("ReadTimeout"),
     Answered(200, Compact(Answer(JText(Compact(SuccessDoc(Metadata("another time"))))))) }

\* the text messages users send ("Privet": the greeting, in Russian)
InboundTexts == {"Privet"}

\* the framework calls _message_handler with an update: a text message of a chat
Receive(h, chat, text) ==
    /\ pc[h] = "idle"
    /\ update' = [update EXCEPT ![h] = [chat |-> chat, message_id |-> nextId[chat], text |-> text]]
    /\ nextId' = [nextId EXCEPT ![chat] = @ + 1]
    /\ pc' = [pc EXCEPT ![h] = "start"]
    /\ UNCHANGED <<thinking_message, ai_response, calls, clientVars, cleanVars>>

\* line 274: thinking_message = await update.message.reply_text(...)
ReplyThinking(h) ==
    /\ pc[h] = "start"
    /\ LET chat == update[h].chat
           sent == [chat |-> chat, message_id |-> nextId[chat]]
       IN /\ thinking_message' = [thinking_message EXCEPT ![h] = sent]
          /\ nextId' = [nextId EXCEPT ![chat] = @ + 1]
          /\ calls' = Append(calls, [op |-> "send", by |-> h, chat |-> chat,
                                     message_id |-> sent.message_id, text |-> THINKING])
    /\ pc' = [pc EXCEPT ![h] = "thinking"]
    /\ UNCHANGED <<update, ai_response, clientVars, cleanVars>>

\* line 277: ai_response = self.gpt_client.get_response(user_message); the call
\* does not await, so no other handler runs during it
GetAiResponse(h) ==
    /\ pc[h] = "thinking"
    /\ \E o \in RelayOutcomes(_get_current_timestamp(now)) :
          LET r == get_response(o, _get_current_timestamp(now), build)
          IN /\ ai_response' = [ai_response EXCEPT ![h] = r.val]
             /\ pc' = [pc EXCEPT ![h] = IF r.exc = "none" THEN "responded" ELSE "raised"]
    /\ UNCHANGED <<update, thinking_message, nextId, calls, clientVars, cleanVars>>

\* an edit told the id of the user's message, update.message.message_id
EditTargetInbound(h) ==
    [chat |-> update[h].chat, message_id |-> update[h].message_id]

\* the message edit_message_text is told to edit: chat_id and message_id
EditTarget(h) ==
    [chat |-> update[h].chat, message_id |-> thinking_message[h].message_id]

\* lines 280-284: await context.bot.edit_message_text(...)
EditMessage(h) ==
    /\ pc[h] = "responded"
    /\ calls' = Append(calls, [op |-> "edit", by |-> h, chat |-> EditTarget(h).chat,
                               message_id |-> EditTarget(h).message_id,
                               text |-> ai_response[h]])
    /\ pc' = [pc EXCEPT ![h] = "done"]
    /\ UNCHANGED <<update, thinking_message, ai_response, nextId, clientVars, cleanVars>>

Init == build = "requests>=2.27" /\ ClientIdle /\ CleanIdle /\ RelayIdle
Next ==
    \/ \E h \in HandlerIds, chat \in Chats, text \in InboundTexts : Receive(h, chat, text)
    \/ \E h \in HandlerIds : ReplyThinking(h)
    \/ \E h \in HandlerIds : GetAiResponse(h)
    \/ \E h \in HandlerIds : EditMessage(h)
Spec == Init /\ [][Next]_vars

\* ================================================================ claims

\* ---- reading what get_response was given and what it returned

\* the fixed envelope: status, and the slot of that status populated, the other null
IsEnvelope(v) ==
    /\ v.t = "obj" /\ HasKey(v, "status") /\ HasKey(v, "data") /\ HasKey(v, "error")
    /\ \/ Get(v, "status") = JStr("success") /\ Get(v, "data").t = "obj" /\ Get(v, "error") = JNull
       \/ Get(v, "status") = JStr("error") /\ Get(v, "error").t = "obj" /\ Get(v, "data") = JNull
IsEnvelopeText(text) == Loads(text).exc = "none" /\ IsEnvelope(Loads(text).val)
\* an error envelope with code, message and details.timestamp
IsFullError(text) ==
    /\ IsEnvelopeText(text)
    /\ LET v == Loads(text).val
       IN /\ Get(v, "status") = JStr("error")
          /\ LET e == Get(v, "error")
             IN /\ HasKey(e, "code") /\ Get(e, "code").t = "str"
                /\ HasKey(e, "message") /\ Get(e, "message").t = "str"
                /\ HasKey(e, "details") /\ Get(e, "details").t = "obj"
                /\ HasKey(Get(e, "details"), "timestamp")
CodeOf(text) == Get(Get(Loads(text).val, "error"), "code").s
DetailsOf(text) == Get(Get(Loads(text).val, "error"), "details")
HasRetryAfter(text, n) ==
    HasKey(DetailsOf(text), "retry_after") /\ Get(DetailsOf(text), "retry_after") = JNum(n)

\* a str at result.alternatives[0].message.text
HasAnswerText(v) ==
    /\ v.t = "obj" /\ HasKey(v, "result")
    /\ LET r == Get(v, "result")
       IN /\ r.t = "obj" /\ HasKey(r, "alternatives")
          /\ LET a == Get(r, "alternatives")
             IN /\ a.t = "list" /\ Len(a.items) > 0
                /\ LET f == a.items[1].val
                   IN /\ f.t = "obj" /\ HasKey(f, "message")
                      /\ LET m == Get(f, "message")
                         IN m.t = "obj" /\ HasKey(m, "text") /\ Get(m, "text").t = "str"
AnswerText(v) ==
    TextOf(Get(Get(Get(Get(v, "result"), "alternatives").items[1].val, "message"), "text"))

Ended == cpc \in {"returned", "raised"}
Is2xx(o) == o.kind = "response" /\ 200 <= o.status /\ o.status < 300
BodyIsJson(o) == Loads(o.body).exc = "none"
CarriesText(o) == Is2xx(o) /\ BodyIsJson(o) /\ HasAnswerText(Loads(o.body).val)
\* the model's text with its fence stripped
CleanedText(o) == _clean_markdown_json(AnswerText(Loads(o.body).val))
\* the document with only data.metadata.timestamp overwritten, as json.dumps writes it
Restamped(text, ts) ==
    LET v == Loads(text).val
        d == Get(v, "data")
        m == Get(d, "metadata")
    IN Dumps(Put(v, "data", Put(d, "metadata", Put(m, "timestamp", JStr(ts)))))
CanRestamp(text) ==
    /\ Loads(text).exc = "none"
    /\ LET v == Loads(text).val
       IN /\ v.t = "obj" /\ HasKey(v, "data") /\ Get(v, "data").t = "obj"
          /\ HasKey(Get(v, "data"), "metadata") /\ Get(Get(v, "data"), "metadata").t = "obj"

\* C1 as stated: whatever the upstream call did, the str returned parses as the
\* fixed envelope, status success or error, the slot of that status populated and
\* the other null.
C1_AlwaysEnvelope == Ended => cpc = "returned" /\ IsEnvelopeText(ret)

\* C1 as amended: the str returned parses as the fixed envelope unless the upstream
\* answered 2xx with a model text that, with its fence stripped, is itself no such
\* envelope.
C1_EnvelopeUnlessModelTextIsNone ==
    Ended =>
        /\ cpc = "returned"
        /\ \/ IsEnvelopeText(ret)
           \/ CarriesText(outcome) /\ ~IsEnvelopeText(CleanedText(outcome))
C1_Witness ==
    /\ cpc = "returned" /\ CarriesText(outcome)
    /\ AnswerText(Loads(outcome.body).val) # CleanedText(outcome)
    /\ IsEnvelopeText(ret) /\ Get(Loads(ret).val, "status") = JStr("success")
    /\ ret # CleanedText(outcome)

\* C2: a returned response of status success has data.metadata.timestamp equal to
\* the timestamp computed at the start of the call.
C2_SuccessTimestamp ==
    (/\ cpc = "returned" /\ Loads(ret).exc = "none"
     /\ LET v == Loads(ret).val
        IN v.t = "obj" /\ HasKey(v, "status") /\ Get(v, "status") = JStr("success"))
    => /\ CanRestamp(ret)
       /\ LET m == Get(Get(Loads(ret).val, "data"), "metadata")
          IN HasKey(m, "timestamp") /\ Get(m, "timestamp") = JStr(timestamp)

\* C3: a non-2xx answer gives an error envelope of code http_error whose
\* retry_after is 60 for status 429 or 503 and 30 for any other status.
C3_HttpRetryAfter ==
    (Ended /\ outcome.kind = "response" /\ ~Is2xx(outcome))
    => /\ cpc = "returned" /\ IsFullError(ret) /\ CodeOf(ret) = "http_error"
       /\ HasRetryAfter(ret, IF outcome.status \in {429, 503} THEN "60" ELSE "30")

\* C4: a 2xx answer whose body is not JSON gives an error envelope of code
\* json_decode_error with retry_after 30.
C4_JsonDecodeError ==
    (Ended /\ Is2xx(outcome) /\ ~BodyIsJson(outcome))
    => /\ cpc = "returned" /\ IsFullError(ret) /\ CodeOf(ret) = "json_decode_error"
       /\ HasRetryAfter(ret, "30")

\* C5: a 2xx answer whose JSON body has no str at result.alternatives[0].message.text
\* gives an error envelope of code api_structure_error without retry_after.
C5_ApiStructureError ==
    (Ended /\ Is2xx(outcome) /\ BodyIsJson(outcome) /\ ~HasAnswerText(Loads(outcome.body).val))
    => /\ cpc = "returned" /\ IsFullError(ret) /\ CodeOf(ret) = "api_structure_error"
       /\ ~HasKey(DetailsOf(ret), "retry_after")

\* a step of the call raised: the request, the status check, the parse of the
\* body, the extraction of the text, or the repair of the timestamp
StepFailed(o, ts) ==
    \/ o.kind = "exception"
    \/ RaisesForStatus(o.status)
    \/ ~BodyIsJson(o)
    \/ ~HasAnswerText(Loads(o.body).val)
    \/ _fix_timestamp_in_response(CleanedText(o), ts).exc # "none"

\* C6: no exception leaves get_response; when a step of the call raised, the str
\* returned is an error envelope with code, message and the timestamp of the call.
C6_NoExceptionEscapes ==
    /\ cpc # "raised" /\ raised = "none"
    /\ (cpc = "returned" /\ StepFailed(outcome, timestamp))
       => /\ IsFullError(ret)
          /\ Get(DetailsOf(ret), "timestamp") = JStr(timestamp)
C6_Witness ==
    /\ cpc = "returned" /\ CarriesText(outcome) /\ handler = "Exception"
    /\ IsFullError(ret) /\ CodeOf(ret) = "unknown_error"

\* C7: a timeout of the upstream call, a timeout while connecting included, gives
\* an error envelope of code timeout_error with retry_after 30.
C7_Timeout ==
    (Ended /\ outcome.kind = "exception" /\ IsInstance(outcome.cls, "Timeout"))
    => /\ cpc = "returned" /\ IsFullError(ret) /\ CodeOf(ret) = "timeout_error"
       /\ HasRetryAfter(ret, "30")
C7_Witness ==
    /\ cpc = "returned" /\ outcome = Raised("ConnectTimeout")
    /\ IsInstance(outcome.cls, "ConnectionError")
    /\ CodeOf(ret) = "timeout_error"

\* C8: cleaning a cleaned text changes nothing.
C8_CleanIdempotent == cleanPc = 2 => cleanTwice = cleanOnce

\* the calls a handler made
SendsBy(h) == {i \in 1..Len(calls) : calls[i].op = "send" /\ calls[i].by = h}
EditsBy(h) == {i \in 1..Len(calls) : calls[i].op = "edit" /\ calls[i].by = h}

\* C9: each handler sends its placeholder, then calls get_response, then makes one
\* edit, of the placeholder it sent itself, to the str get_response returned; no
\* edit comes before its placeholder or changes the placeholder of another handler.
C9_PlaceholderThenEdit ==
    \A h \in HandlerIds :
        /\ pc[h] # "raised"
        /\ Cardinality(SendsBy(h)) = IF pc[h] \in {"thinking", "responded", "done"} THEN 1 ELSE 0
        /\ Cardinality(EditsBy(h)) = IF pc[h] = "done" THEN 1 ELSE 0
        /\ ai_response[h] # <<>> => pc[h] \in {"responded", "done"}
        /\ \A j \in EditsBy(h) :
              /\ calls[j].text = ai_response[h]
              /\ \E i \in SendsBy(h) :
                    /\ i < j
                    /\ calls[i].text = THINKING
                    /\ calls[i].chat = calls[j].chat
                    /\ calls[i].message_id = calls[j].message_id
              /\ \A i \in 1..Len(calls) :
                    (/\ calls[i].op = "send"
                     /\ calls[i].chat = calls[j].chat
                     /\ calls[i].message_id = calls[j].message_id) => calls[i].by = h
C9_Witness ==
    /\ Len(calls) = 4
    /\ \A h \in {1, 2} : pc[h] = "done"
    /\ update[1].chat = update[2].chat
    /\ calls[1].op = "send" /\ calls[2].op = "send" /\ calls[3].op = "edit"
    /\ calls[3].by = calls[2].by
    /\ ai_response[1] # ai_response[2]

\* C10: a 2xx answer that carries a model text never fails the call: the str
\* returned is the text with its fence stripped, unchanged or written again with
\* only data.metadata.timestamp overwritten, and never an error envelope of the
\* client's making.
C10_ModelTextPassesThrough ==
    (Ended /\ CarriesText(outcome))
    => /\ cpc = "returned" /\ handler = "none"
       /\ \/ ret = CleanedText(outcome)
          \/ CanRestamp(CleanedText(outcome)) /\ ret = Restamped(CleanedText(outcome), timestamp)

====
